---- MODULE Spec2Model ----
(***************************************************************************)
(* Model of .github/scripts/process-issue-files.ts: the pipeline that      *)
(* extracts attachment URLs from an issue comment, downloads them from     *)
(* allow-listed hosts under a size bound, derives safe filenames and       *)
(* writes the files and a metadata.json manifest.                          *)
(*                                                                         *)
(* Strings are sequences of one-character strings, so that length,         *)
(* replacement, trimming and splitting are computed character by           *)
(* character.  A filesystem path is a sequence of components (each a       *)
(* string), rooted at "/".                                                 *)
(***************************************************************************)
EXTENDS Integers, Sequences, FiniteSets, TLC

\* ------------------------------------------------------------------------
\* Program constants
\* ------------------------------------------------------------------------
MAX_FILENAME_LENGTH == 200

MAX_FILE_SIZE == 26214400

\* ------------------------------------------------------------------------
\* Bounds of the model
\* ------------------------------------------------------------------------
\* longest comment, in tokens (a token is a markdown construct or prose)
MaxTokens == 2

\* how far beyond MAX_FILENAME_LENGTH the sanitizer's padded inputs go
MaxOver == 2

\* longest hand-enumerated head of a sanitizer input
MaxHead == 2

\* ------------------------------------------------------------------------
\* String helpers (JavaScript String methods)
\* ------------------------------------------------------------------------
Max(a, b) == IF a > b THEN a ELSE b

Min(a, b) == IF a < b THEN a ELSE b

\* s.substring(0, n): a negative n counts as 0, an n past the end as the end
Substring0(s, n) == SubSeq(s, 1, Min(Max(n, 0), Len(s)))

\* x repeated n times
Pad(x, n) == [i \in 1..n |-> x]

\* indices of the occurrences of character c in s
Positions(s, c) == {i \in 1..Len(s) : s[i] = c}

SetMax(S) == CHOOSE m \in S : \A k \in S : k <= m

SetMin(S) == CHOOSE m \in S : \A k \in S : m <= k

\* s.includes(c) for a one-character c
Includes(s, c) == Positions(s, c) # {}

\* s.endsWith(t)
EndsWith(s, t) == Len(t) <= Len(s) /\ SubSeq(s, Len(s) - Len(t) + 1, Len(s)) = t

\* s.startsWith(t)
StartsWith(s, t) == Len(t) <= Len(s) /\ SubSeq(s, 1, Len(t)) = t

\* s.split(c)[0]: the part before the first c, all of s when there is none
SplitFirst(s, c) ==
  IF Includes(s, c) THEN SubSeq(s, 1, SetMin(Positions(s, c)) - 1) ELSE s

\* s.split(c): the parts between the occurrences of c
RECURSIVE Split(_, _)
Split(s, c) ==
  IF ~Includes(s, c) THEN <<s>>
  ELSE LET i == SetMin(Positions(s, c))
       IN  <<SubSeq(s, 1, i - 1)>> \o Split(SubSeq(s, i + 1, Len(s)), c)

UpperMap ==
  ("a" :> "A") @@ ("b" :> "B") @@ ("c" :> "C") @@ ("d" :> "D") @@ ("e" :> "E") @@
  ("f" :> "F") @@ ("g" :> "G") @@ ("h" :> "H") @@ ("i" :> "I") @@ ("j" :> "J") @@
  ("k" :> "K") @@ ("l" :> "L") @@ ("m" :> "M") @@ ("n" :> "N") @@ ("o" :> "O") @@
  ("p" :> "P") @@ ("q" :> "Q") @@ ("r" :> "R") @@ ("s" :> "S") @@ ("t" :> "T") @@
  ("u" :> "U") @@ ("v" :> "V") @@ ("w" :> "W") @@ ("x" :> "X") @@ ("y" :> "Y") @@
  ("z" :> "Z")

\* s.toUpperCase()
ToUpperCase(s) ==
  [i \in 1..Len(s) |-> IF s[i] \in DOMAIN UpperMap THEN UpperMap[s[i]] ELSE s[i]]

Digits == {"0", "1", "2", "3", "4", "5", "6", "7", "8", "9"}

DigitChar == <<"0", "1", "2", "3", "4", "5", "6", "7", "8", "9">>

\* `${counter}`: the decimal digits of a natural number
RECURSIVE NumToString(_)
NumToString(n) ==
  IF n < 10 THEN <<DigitChar[n + 1]>>
  ELSE NumToString(n \div 10) \o <<DigitChar[(n % 10) + 1]>>

\* ------------------------------------------------------------------------
\* path.extname / path.basename / path.join / path.relative (POSIX)
\* ------------------------------------------------------------------------
\* path.extname of a name that holds no "/": from the last dot to the end,
\* empty when there is no dot, when the only dot leads, or for ".."
extname(f) ==
  IF ~Includes(f, ".") THEN <<>>
  ELSE LET d == SetMax(Positions(f, "."))
       IN  IF d = 1 \/ f = <<".", ".">> THEN <<>> ELSE SubSeq(f, d, Len(f))

\* path.basename(f, ext) of a name that holds no "/"
basename(f, ext) ==
  IF ext = f THEN <<>>
  ELSE IF Len(ext) > 0 /\ EndsWith(f, ext) THEN SubSeq(f, 1, Len(f) - Len(ext))
  ELSE f

\* path.normalize on a sequence of components: "" and "." vanish, ".."
\* removes the component before it (and stays at the root)
RECURSIVE Normalize(_, _)
Normalize(done, rest) ==
  IF rest = <<>> THEN done
  ELSE LET c == Head(rest)
       IN  IF c = <<>> \/ c = <<".">> THEN Normalize(done, Tail(rest))
           ELSE IF c = <<".", ".">>
                THEN Normalize(SubSeq(done, 1, Max(Len(done) - 1, 0)), Tail(rest))
           ELSE Normalize(Append(done, c), Tail(rest))

\* path.join(dir, name): dir is an absolute normalized path
pathJoin(dir, name) == Normalize(dir, Split(name, "/"))

IsPrefix(p, q) == Len(p) <= Len(q) /\ SubSeq(q, 1, Len(p)) = p

\* length of the longest common prefix of two paths
RECURSIVE CommonLen(_, _)
CommonLen(p, q) ==
  IF p = <<>> \/ q = <<>> \/ Head(p) # Head(q) THEN 0
  ELSE 1 + CommonLen(Tail(p), Tail(q))

\* path.relative(from, to), as a sequence of components
pathRelative(from, to) ==
  LET k == CommonLen(from, to)
  IN  Pad(<<".", ".">>, Len(from) - k) \o SubSeq(to, k + 1, Len(to))

\* ------------------------------------------------------------------------
\* sanitizeFilename
\* ------------------------------------------------------------------------
reservedNames ==
  { <<"C", "O", "N">>, <<"P", "R", "N">>, <<"A", "U", "X">>, <<"N", "U", "L">>,
    <<"C", "O", "M", "1">>, <<"C", "O", "M", "2">>, <<"C", "O", "M", "3">>,
    <<"C", "O", "M", "4">>, <<"C", "O", "M", "5">>, <<"C", "O", "M", "6">>,
    <<"C", "O", "M", "7">>, <<"C", "O", "M", "8">>, <<"C", "O", "M", "9">>,
    <<"L", "P", "T", "1">>, <<"L", "P", "T", "2">>, <<"L", "P", "T", "3">>,
    <<"L", "P", "T", "4">>, <<"L", "P", "T", "5">>, <<"L", "P", "T", "6">>,
    <<"L", "P", "T", "7">>, <<"L", "P", "T", "8">>, <<"L", "P", "T", "9">> }

\* the control characters \x00-\x1f the model's alphabet holds
ControlChars == {"\t", "\n", "\r", "\f"}

\* the character class [<>:"/\\|?*\x00-\x1f]
InvalidChars == {"<", ">", ":", "\"", "/", "\\", "|", "?", "*"} \cup ControlChars

\* the character class [\s.]
SpaceOrDot == {" ", ".", "\t", "\n", "\r", "\f"}

\* filename.replace(/[<>:"/\\|?*\x00-\x1f]/g, '_')
ReplaceInvalid(s) == [i \in 1..Len(s) |-> IF s[i] \in InvalidChars THEN "_" ELSE s[i]]

\* filename.replace(/^[\s.]+|[\s.]+$/g, '')
TrimDotsAndSpaces(s) ==
  LET keep == {i \in 1..Len(s) : s[i] \notin SpaceOrDot}
  IN  IF keep = {} THEN <<>> ELSE SubSeq(s, SetMin(keep), SetMax(keep))

\* if (reservedNames.includes(filename.split('.')[0].toUpperCase())) ...
PrefixReserved(s) ==
  IF ToUpperCase(SplitFirst(s, ".")) \in reservedNames THEN <<"_">> \o s ELSE s

\* if (filename.length > MAX_FILENAME_LENGTH) { ... }
LimitLength(s) ==
  IF Len(s) > MAX_FILENAME_LENGTH
  THEN LET ext == extname(s)
           nameWithoutExt == basename(s, ext)
       IN  Substring0(nameWithoutExt, MAX_FILENAME_LENGTH - Len(ext)) \o ext
  ELSE s

\* if (!filename) filename = 'file'
DefaultIfEmpty(s) == IF s = <<>> THEN <<"f", "i", "l", "e">> ELSE s

sanitizeFilename(filename) ==
  DefaultIfEmpty(LimitLength(PrefixReserved(TrimDotsAndSpaces(ReplaceInvalid(filename)))))

\* ------------------------------------------------------------------------
\* URLs and comment text
\* ------------------------------------------------------------------------
\* A URL "https://<authority>/<seg>/.../<seg>" is the record of its authority
\* and its path segments; a comment is a sequence of tokens, each a markdown
\* construct holding one URL: the bare URL, [text](url) or ![alt](url).
\* URLs hold no ")" (the constructs end at the first one).

S_https == <<"h", "t", "t", "p", "s", ":", "/", "/">>

S_github_com == <<"g", "i", "t", "h", "u", "b", ".", "c", "o", "m">>

S_githubusercontent_com == <<"g", "i", "t", "h", "u", "b", "u", "s", "e", "r", "c", "o", "n", "t", "e", "n", "t", ".", "c", "o", "m">>

S_user_images == <<"u", "s", "e", "r", "-", "i", "m", "a", "g", "e", "s", ".", "g", "i", "t", "h", "u", "b", "u", "s", "e", "r", "c", "o", "n", "t", "e", "n", "t", ".", "c", "o", "m">>

S_raw == <<"r", "a", "w", ".", "g", "i", "t", "h", "u", "b", "u", "s", "e", "r", "c", "o", "n", "t", "e", "n", "t", ".", "c", "o", "m">>

S_assets == <<"a", "s", "s", "e", "t", "s">>

S_user_attachments == <<"u", "s", "e", "r", "-", "a", "t", "t", "a", "c", "h", "m", "e", "n", "t", "s">>

S_files == <<"f", "i", "l", "e", "s">>

S_metadata_json == <<"m", "e", "t", "a", "d", "a", "t", "a", ".", "j", "s", "o", "n">>

S_photo_png == <<"p", "h", "o", "t", "o", ".", "p", "n", "g">>

S_photo_1_png == <<"p", "h", "o", "t", "o", "_", "1", ".", "p", "n", "g">>

S_photo_2_png == <<"p", "h", "o", "t", "o", "_", "2", ".", "p", "n", "g">>

\* the tokens a comment of the model is made of
CommentTokens ==
  { \* ![img](https://user-images.githubusercontent.com/1/photo.png)
    [ kind |-> "image",
      url |-> [ authority |-> <<"u", "s", "e", "r", "-", "i", "m", "a", "g", "e", "s", ".", "g", "i", "t", "h", "u", "b", "u", "s", "e", "r", "c", "o", "n", "t", "e", "n", "t", ".", "c", "o", "m">>,
        segs |-> << <<"1">>,
                   <<"p", "h", "o", "t", "o", ".", "p", "n", "g">> >> ] ],
    \* https://github.com/o/r/assets/1/photo.png
    [ kind |-> "bare",
      url |-> [ authority |-> <<"g", "i", "t", "h", "u", "b", ".", "c", "o", "m">>,
        segs |-> << <<"o">>,
                   <<"r">>,
                   <<"a", "s", "s", "e", "t", "s">>,
                   <<"1">>,
                   <<"p", "h", "o", "t", "o", ".", "p", "n", "g">> >> ] ],
    \* https://github.com/user-attachments/files/1/metadata.json
    [ kind |-> "bare",
      url |-> [ authority |-> <<"g", "i", "t", "h", "u", "b", ".", "c", "o", "m">>,
        segs |-> << <<"u", "s", "e", "r", "-", "a", "t", "t", "a", "c", "h", "m", "e", "n", "t", "s">>,
                   <<"f", "i", "l", "e", "s">>,
                   <<"1">>,
                   <<"m", "e", "t", "a", "d", "a", "t", "a", ".", "j", "s", "o", "n">> >> ] ],
    \* ![x](https://evil.com/github.com/x.png)
    [ kind |-> "image",
      url |-> [ authority |-> <<"e", "v", "i", "l", ".", "c", "o", "m">>,
        segs |-> << <<"g", "i", "t", "h", "u", "b", ".", "c", "o", "m">>,
                   <<"x", ".", "p", "n", "g">> >> ] ],
    \* https://github.com/user-attachments/files/1/%2F..%2F..%2Fx
    [ kind |-> "bare",
      url |-> [ authority |-> <<"g", "i", "t", "h", "u", "b", ".", "c", "o", "m">>,
        segs |-> << <<"u", "s", "e", "r", "-", "a", "t", "t", "a", "c", "h", "m", "e", "n", "t", "s">>,
                   <<"f", "i", "l", "e", "s">>,
                   <<"1">>,
                   <<"%", "2", "F", ".", ".", "%", "2", "F", ".", ".", "%", "2", "F", "x">> >> ] ],
    \* [up](https://github.com/o/r/assets/1/..)
    [ kind |-> "link",
      url |-> [ authority |-> <<"g", "i", "t", "h", "u", "b", ".", "c", "o", "m">>,
        segs |-> << <<"o">>,
                   <<"r">>,
                   <<"a", "s", "s", "e", "t", "s">>,
                   <<"1">>,
                   <<".", ".">> >> ] ],
    \* [con](https://raw.githubusercontent.com/o/r/CON.txt)
    [ kind |-> "link",
      url |-> [ authority |-> <<"r", "a", "w", ".", "g", "i", "t", "h", "u", "b", "u", "s", "e", "r", "c", "o", "n", "t", "e", "n", "t", ".", "c", "o", "m">>,
        segs |-> << <<"o">>,
                   <<"r">>,
                   <<"C", "O", "N", ".", "t", "x", "t">> >> ] ],
    \* ![d](https://github.com@evil.com/doc)
    [ kind |-> "image",
      url |-> [ authority |-> <<"g", "i", "t", "h", "u", "b", ".", "c", "o", "m", "@", "e", "v", "i", "l", ".", "c", "o", "m">>,
        segs |-> << <<"d", "o", "c">> >> ] ],
    \* ![b](https://[github.com/x.png)
    [ kind |-> "image",
      url |-> [ authority |-> <<"[", "g", "i", "t", "h", "u", "b", ".", "c", "o", "m">>,
        segs |-> << <<"x", ".", "p", "n", "g">> >> ] ] }

\* "https://" + authority + "/" + segments joined by "/"
RECURSIVE JoinSlash(_)
JoinSlash(segs) ==
  IF segs = <<>> THEN <<>>
  ELSE IF Len(segs) = 1 THEN segs[1]
  ELSE segs[1] \o <<"/">> \o JoinSlash(Tail(segs))

UrlText(u) ==
  S_https \o u.authority \o (IF u.segs = <<>> THEN <<>> ELSE <<"/">> \o JoinSlash(u.segs))

\* s.includes(t) for a string t
Contains(s, t) == \E i \in 1..(Len(s) - Len(t) + 1) : SubSeq(s, i, i + Len(t) - 1) = t

Letters == DOMAIN UpperMap \cup {UpperMap[c] : c \in DOMAIN UpperMap}

\* the character class [\w\-\.%]
NameChars == Letters \cup Digits \cup {"_", "-", ".", "%"}

\* /^\d+$/.test(s)
AllDigits(s) == s # <<>> /\ \A i \in 1..Len(s) : s[i] \in Digits

\* the longest prefix of s made of characters of class C (a greedy C+)
TakeWhile(s, C) ==
  LET bad == {i \in 1..Len(s) : s[i] \notin C}
  IN  IF bad = {} THEN s ELSE SubSeq(s, 1, SetMin(bad) - 1)

\* /https:\/\/github\.com\/[^\/]+\/[^\/]+\/assets\/\d+\/[\w\-\.%]+/g on one
\* token: the matched URLs (none or one); the match ends where the name
\* characters of the fifth segment end
assetPattern(tok) ==
  LET u == tok.url
  IN  IF /\ u.authority = S_github_com
         /\ Len(u.segs) >= 5
         /\ u.segs[1] # <<>> /\ u.segs[2] # <<>>
         /\ u.segs[3] = S_assets
         /\ AllDigits(u.segs[4])
         /\ TakeWhile(u.segs[5], NameChars) # <<>>
      THEN << [u EXCEPT !.segs = SubSeq(u.segs, 1, 4)
                                   \o <<TakeWhile(u.segs[5], NameChars)>>] >>
      ELSE <<>>

\* /https:\/\/github\.com\/user-attachments\/files\/\d+\/[\w\-\.%]+/g
attachmentPattern(tok) ==
  LET u == tok.url
  IN  IF /\ u.authority = S_github_com
         /\ Len(u.segs) >= 4
         /\ u.segs[1] = S_user_attachments
         /\ u.segs[2] = S_files
         /\ AllDigits(u.segs[3])
         /\ TakeWhile(u.segs[4], NameChars) # <<>>
      THEN << [u EXCEPT !.segs = SubSeq(u.segs, 1, 3)
                                   \o <<TakeWhile(u.segs[4], NameChars)>>] >>
      ELSE <<>>

\* [text](url) occurs in a link token and inside an image token ![alt](url)
InParentheses(tok) == tok.kind \in {"link", "image"}

\* /\[[^\]]*\]\((https:\/\/github\.com\/[^\/]+\/[^\/]+\/assets\/\d+\/[\w\-\.%]+)\)/g:
\* the asset URL must reach the closing parenthesis
markdownAssetLinkPattern(tok) ==
  IF InParentheses(tok) /\ assetPattern(tok) = <<tok.url>> THEN <<tok.url>> ELSE <<>>

\* the same for /user-attachments/files/
markdownAttachmentLinkPattern(tok) ==
  IF InParentheses(tok) /\ attachmentPattern(tok) = <<tok.url>> THEN <<tok.url>> ELSE <<>>

\* /\[[^\]]*\]\((https:\/\/raw\.githubusercontent\.com\/[^\)]+)\)/g
markdownRawLinkPattern(tok) ==
  IF /\ InParentheses(tok)
     /\ tok.url.authority = S_raw
     /\ JoinSlash(tok.url.segs) # <<>>
  THEN <<tok.url>> ELSE <<>>

\* /!\[[^\]]*\]\((https:\/\/[^\)]+)\)/g, kept when the URL includes
\* 'user-images.githubusercontent.com' or 'github.com'
imgPattern(tok) ==
  IF /\ tok.kind = "image"
     /\ \/ Contains(UrlText(tok.url), S_user_images)
        \/ Contains(UrlText(tok.url), S_github_com)
  THEN <<tok.url>> ELSE <<>>

RECURSIVE Flatten(_)
Flatten(ss) == IF ss = <<>> THEN <<>> ELSE Head(ss) \o Flatten(Tail(ss))

\* Array.from(new Set(s)): the first occurrences, in insertion order
RECURSIVE Dedupe(_)
Dedupe(s) ==
  IF s = <<>> THEN <<>>
  ELSE LET front == Dedupe(SubSeq(s, 1, Len(s) - 1))
           last == s[Len(s)]
       IN  IF \E i \in 1..Len(front) : front[i] = last THEN front
           ELSE Append(front, last)

extractFileUrls(commentBody) ==
  LET n == Len(commentBody)
  IN  Dedupe(   Flatten([i \in 1..n |-> assetPattern(commentBody[i])])
             \o Flatten([i \in 1..n |-> attachmentPattern(commentBody[i])])
             \o Flatten([i \in 1..n |-> markdownAssetLinkPattern(commentBody[i])])
             \o Flatten([i \in 1..n |-> markdownAttachmentLinkPattern(commentBody[i])])
             \o Flatten([i \in 1..n |-> markdownRawLinkPattern(commentBody[i])])
             \o Flatten([i \in 1..n |-> imgPattern(commentBody[i])]))

\* ------------------------------------------------------------------------
\* isAllowedGithubDomain
\* ------------------------------------------------------------------------
\* characters new URL() refuses in a host
ForbiddenHostChars == {"[", "]", " ", "<", ">", "^", "|"}

\* new URL(urlString).hostname: the authority without its userinfo; the
\* empty string stands for the TypeError of an invalid URL
UrlHostname(u) ==
  LET a == u.authority
      h == IF Includes(a, "@") THEN SubSeq(a, SetMax(Positions(a, "@")) + 1, Len(a))
           ELSE a
  IN  IF h = <<>> \/ \E i \in 1..Len(h) : h[i] \in ForbiddenHostChars THEN <<>> ELSE h

isAllowedGithubDomain(u) ==
  LET hostname == UrlHostname(u)
  IN  /\ hostname # <<>>
      /\ \/ hostname = S_github_com
         \/ hostname = S_githubusercontent_com
         \/ EndsWith(hostname, <<".">> \o S_githubusercontent_com)

\* ------------------------------------------------------------------------
\* getFilenameFromUrl
\* ------------------------------------------------------------------------
\* url.split('/').pop() || 'file'
LastSegment(u) ==
  LET parts == Split(UrlText(u), "/")
      last == parts[Len(parts)]
  IN  IF last = <<>> THEN <<"f", "i", "l", "e">> ELSE last

\* if (!filename.includes('.')) filename = `${filename}.bin`
AddDefaultExtension(f) == IF Includes(f, ".") THEN f ELSE f \o <<".", "b", "i", "n">>

\* decodeURIComponent restricted to %2F
RECURSIVE DecodeSlash(_)
DecodeSlash(s) ==
  IF Len(s) < 3 THEN s
  ELSE IF SubSeq(s, 1, 3) = <<"%", "2", "F">>
       THEN <<"/">> \o DecodeSlash(SubSeq(s, 4, Len(s)))
  ELSE <<Head(s)>> \o DecodeSlash(Tail(s))

getFilenameFromUrlDecoded(u) ==
  DecodeSlash(sanitizeFilename(AddDefaultExtension(LastSegment(u))))

getFilenameFromUrl(u) == sanitizeFilename(AddDefaultExtension(LastSegment(u)))

\* ------------------------------------------------------------------------
\* ensureUniqueFilename
\* ------------------------------------------------------------------------
\* `${nameWithoutExt}_${counter}${ext}`
NumberedFilename(filename, counter) ==
  LET ext == extname(filename)
      nameWithoutExt == basename(filename, ext)
  IN  nameWithoutExt \o <<"_">> \o NumToString(counter) \o ext

\* the while loop: existing is the set of paths existsSync answers true for
RECURSIVE UniqueLoop(_, _, _, _, _)
UniqueLoop(dir, filename, filePath, counter, existing) ==
  IF filePath \in existing
  THEN UniqueLoop(dir, filename, pathJoin(dir, NumberedFilename(filename, counter)),
                  counter + 1, existing)
  ELSE filePath

ensureUniqueFilenameNoCheck(dir, filename, existing) == pathJoin(dir, filename)

ensureUniqueFilename(dir, filename, existing) ==
  UniqueLoop(dir, filename, pathJoin(dir, filename), 1, existing)

\* ------------------------------------------------------------------------
\* State
\* ------------------------------------------------------------------------
VARIABLES
  pc,              \* position of main (and of downloadFile inside the loop)
  env,             \* which of GITHUB_TOKEN, COMMENT_ID, GITHUB_REPOSITORY, GITHUB_OUTPUT are set
  issueNumber,     \* ISSUE_NUMBER (empty when unset)
  commentBody,     \* COMMENT_BODY, as tokens
  pre,             \* names of the files in the target directory before the run
  fs,              \* the files on disk: path -> content
  dirs,            \* the directories on disk
  fileUrls,        \* result of extractFileUrls
  idx,             \* index in fileUrls of the URL the loop is at
  response,        \* the response of the fetch in progress
  content,         \* result of downloadFile
  filePath,        \* result of ensureUniqueFilename
  downloadedFiles, \* the paths pushed by the loop
  outputs,         \* the lines appended to GITHUB_OUTPUT
  exitCode,        \* -1 while running
  requests,        \* history: the hosts that received a request
  trace,           \* history: the steps of the downloadFile call in progress
  attempted,       \* history: indices of the URLs downloadFile was called for
  skipped,         \* history: indices of the URLs whose download yielded null
  written,         \* history: the loop's writeFile calls, in order
  guardResult,     \* history: "none", or the traversal guard's verdict "passed" / "failed"
  manifest,        \* history: the metadata written
  fatalError,      \* history: "none", or the call whose exception reached main().catch
  sanIn,           \* input of a direct call of sanitizeFilename
  sanOut,          \* its output
  sanPc            \* "idle", "in" or "out"

mainVars ==
  << pc, env, issueNumber, commentBody, pre, fs, dirs, fileUrls, idx, response,
     content, filePath, downloadedFiles, outputs, exitCode, requests, trace,
     attempted, skipped, written, guardResult, manifest, fatalError >>

sanVars == << sanIn, sanOut, sanPc >>

vars == << mainVars, sanVars >>

\* ------------------------------------------------------------------------
\* Values
\* ------------------------------------------------------------------------
NoResponse == [ok |-> FALSE, contentLength |-> [kind |-> "none", n |-> 0],
               bodySize |-> 0, redirect |-> <<>>]

\* null (downloadFile), and "no value yet"
Absent == [kind |-> "absent", from |-> 0, size |-> 0, files |-> <<>>]

Bytes(i, n) == [kind |-> "bytes", from |-> i, size |-> n, files |-> <<>>]

OldFile == [kind |-> "old", from |-> 0, size |-> 0, files |-> <<>>]

\* JSON.stringify(metadata, null, 2)
Metadata(files) == [kind |-> "metadata", from |-> 0, size |-> 0, files |-> files]

\* the content-length header: absent (null), a number, or not a number
NoHeader == [kind |-> "null", n |-> 0]

NumHeader(n) == [kind |-> "num", n |-> n]

NanHeader == [kind |-> "nan", n |-> 0]

\* a host outside the allow-list that a redirect may lead to
S_redirect_host == <<"s", "3", ".", "a", "w", "s">>

\* the responses a server may give
Responses ==
  { [ok |-> TRUE, contentLength |-> NoHeader, bodySize |-> 10, redirect |-> <<>>],
    [ok |-> TRUE, contentLength |-> NumHeader(MAX_FILE_SIZE), bodySize |-> MAX_FILE_SIZE,
     redirect |-> S_redirect_host],
    [ok |-> TRUE, contentLength |-> NumHeader(30000000), bodySize |-> 30000000,
     redirect |-> <<>>],
    [ok |-> TRUE, contentLength |-> NoHeader, bodySize |-> MAX_FILE_SIZE + 1,
     redirect |-> <<>>],
    [ok |-> TRUE, contentLength |-> NumHeader(10), bodySize |-> MAX_FILE_SIZE + 1,
     redirect |-> <<>>],
    [ok |-> TRUE, contentLength |-> NanHeader, bodySize |-> MAX_FILE_SIZE + 1,
     redirect |-> <<>>],
    [ok |-> FALSE, contentLength |-> NumHeader(10), bodySize |-> 10, redirect |-> <<>>] }

\* the values of ISSUE_NUMBER: 42, unset, 4a, ../x, 42 followed by a newline
IssueNumbers ==
  { <<"4", "2">>, <<>>, <<"4", "a">>, <<".", ".", "/", "x">>, <<"4", "2", "\n">> }

\* the required variables: all set, or one of them unset
Environments ==
  { [token |-> t, commentId |-> c, repository |-> r, output |-> o] :
      t \in BOOLEAN, c \in BOOLEAN, r \in BOOLEAN, o \in BOOLEAN }

\* the files a run may find in its target directory
PreExisting ==
  { {}, {S_photo_png}, {S_photo_png, S_photo_1_png}, {S_metadata_json} }

RECURSIVE SeqsUpTo(_, _)
SeqsUpTo(S, n) ==
  IF n = 0 THEN {<<>>}
  ELSE LET shorter == SeqsUpTo(S, n - 1)
       IN  shorter \cup {Append(q, x) : q \in shorter, x \in S}

\* ------------------------------------------------------------------------
\* Paths of main
\* ------------------------------------------------------------------------
\* process.cwd()
Cwd == << <<"w", "o", "r", "k">> >>

\* path.resolve('uploaded_files')
baseDir == Append(Cwd, <<"u", "p", "l", "o", "a", "d", "e", "d", "_", "f", "i", "l", "e", "s">>)

\* path.join(baseDir, `issue_${issueNumber}`)
targetDirOf(n) == pathJoin(baseDir, <<"i", "s", "s", "u", "e", "_">> \o n)

targetDir == targetDirOf(issueNumber)

\* path.join(targetDir, 'metadata.json')
metadataPath == pathJoin(targetDir, S_metadata_json)

\* a directory and the directories above it (mkdir with recursive: true)
Ancestors(p) == {SubSeq(p, 1, k) : k \in 0..Len(p)}

\* the paths existsSync answers true for
ExistingPaths == DOMAIN fs \cup dirs

\* the disk before the run
InitialFs(names, n) == [q \in {Append(targetDirOf(n), f) : f \in names} |-> OldFile]

InitialDirs(names, n) ==
  Ancestors(Cwd) \cup (IF names = {} THEN {} ELSE Ancestors(targetDirOf(n)))

\* /^\d+$/.test(issueNumber)
IssueNumberValidUnanchored(n) == \E i \in 1..Len(n) : n[i] \in Digits

IssueNumberValid(n) == n # <<>> /\ \A i \in 1..Len(n) : n[i] \in Digits

\* relative.startsWith('..') || path.isAbsolute(relative): a relative path
\* is the text of its components joined by "/", and is never absolute
EscapesBase(rel) == StartsWith(JoinSlash(rel), <<".", ".">>)

\* ------------------------------------------------------------------------
\* Initial state
\* ------------------------------------------------------------------------
MainInit ==
  /\ pc = "start"
  /\ env \in Environments
  /\ issueNumber \in IssueNumbers
  /\ commentBody \in SeqsUpTo(CommentTokens, MaxTokens)
  /\ pre \in PreExisting
  /\ fs = InitialFs(pre, issueNumber)
  /\ dirs = InitialDirs(pre, issueNumber)
  /\ fileUrls = <<>>
  /\ idx = 0
  /\ response = NoResponse
  /\ content = Absent
  /\ filePath = <<>>
  /\ downloadedFiles = <<>>
  /\ outputs = <<>>
  /\ exitCode = -1
  /\ requests = {}
  /\ trace = <<>>
  /\ attempted = {}
  /\ skipped = {}
  /\ written = <<>>
  /\ guardResult = "none"
  /\ manifest = Absent
  /\ fatalError = "none"

SanIdle == sanIn = <<>> /\ sanOut = <<>> /\ sanPc = "idle"

Init == MainInit /\ SanIdle

\* ------------------------------------------------------------------------
\* main, up to the loop
\* ------------------------------------------------------------------------
\* process.exit(code)
Exit(code) == pc' = "exited" /\ exitCode' = code

\* an exception that nothing in main catches: main().catch exits with 1
Throw(call) == pc' = "exited" /\ exitCode' = 1 /\ fatalError' = call

\* setOutput(name, value): appends the line name=value, and throws when
\* GITHUB_OUTPUT is unset
OutputLine(name, value) == [name |-> name, value |-> value]

\* if (!token || !issueNumber || !commentId || !repository) process.exit(1)
CheckEnv ==
  /\ pc = "start"
  /\ IF ~env.token \/ issueNumber = <<>> \/ ~env.commentId \/ ~env.repository
     THEN Exit(1)
     ELSE pc' = "validate" /\ UNCHANGED exitCode
  /\ UNCHANGED << env, issueNumber, commentBody, pre, fs, dirs, fileUrls, idx,
                  response, content, filePath, downloadedFiles, outputs, requests,
                  trace, attempted, skipped, written, guardResult, manifest, fatalError, sanVars >>

\* if (!/^\d+$/.test(issueNumber)) process.exit(1)
ValidateIssueNumber ==
  /\ pc = "validate"
  /\ IF ~IssueNumberValid(issueNumber)
     THEN Exit(1)
     ELSE pc' = "guard" /\ UNCHANGED exitCode
  /\ UNCHANGED << env, issueNumber, commentBody, pre, fs, dirs, fileUrls, idx,
                  response, content, filePath, downloadedFiles, outputs, requests,
                  trace, attempted, skipped, written, guardResult, manifest, fatalError, sanVars >>

\* the path traversal guard on targetDir
GuardTargetDir ==
  /\ pc = "guard"
  /\ IF EscapesBase(pathRelative(baseDir, targetDir))
     THEN guardResult' = "failed" /\ Exit(1)
     ELSE guardResult' = "passed" /\ pc' = "mkdir" /\ UNCHANGED exitCode
  /\ UNCHANGED << env, issueNumber, commentBody, pre, fs, dirs, fileUrls, idx,
                  response, content, filePath, downloadedFiles, outputs, requests,
                  trace, attempted, skipped, written, manifest, fatalError, sanVars >>

\* await fs.mkdir(targetDir, { recursive: true })
MakeTargetDir ==
  /\ pc = "mkdir"
  /\ dirs' = dirs \cup Ancestors(targetDir)
  /\ pc' = "extract"
  /\ UNCHANGED << env, issueNumber, commentBody, pre, fs, fileUrls, idx, response,
                  content, filePath, downloadedFiles, outputs, exitCode, requests,
                  trace, attempted, skipped, written, guardResult, manifest,
                  fatalError, sanVars >>

\* await fs.mkdir(...) rejects (no permission, disk full)
MakeTargetDirThrows ==
  /\ pc = "mkdir"
  /\ Throw("mkdir")
  /\ UNCHANGED << env, issueNumber, commentBody, pre, fs, dirs, fileUrls, idx,
                  response, content, filePath, downloadedFiles, outputs, requests,
                  trace, attempted, skipped, written, guardResult, manifest, sanVars >>

\* fileUrls = extractFileUrls(commentBody); with none, files_processed=false
\* is reported and main returns
ExtractUrls ==
  /\ pc = "extract"
  /\ fileUrls' = extractFileUrls(commentBody)
  /\ IF fileUrls' = <<>>
     THEN IF env.output
          THEN /\ outputs' = Append(outputs, OutputLine("files_processed", "false"))
               /\ Exit(0)
               /\ UNCHANGED << idx, fatalError >>
          ELSE Throw("setOutput") /\ UNCHANGED << outputs, idx >>
     ELSE pc' = "download" /\ idx' = 1 /\ UNCHANGED << outputs, exitCode, fatalError >>
  /\ UNCHANGED << env, issueNumber, commentBody, pre, fs, dirs, response, content,
                  filePath, downloadedFiles, requests, trace, attempted, skipped,
                  written, guardResult, manifest, sanVars >>

\* ------------------------------------------------------------------------
\* downloadFile, called by the loop of main
\* ------------------------------------------------------------------------
\* where the for loop goes after the URL at idx
AfterUrl == IF idx + 1 > Len(fileUrls) THEN "report" ELSE "download"

\* if (!content) continue: downloadFile returned null
ContinueLoop ==
  /\ skipped' = skipped \cup {idx}
  /\ content' = Absent
  /\ response' = NoResponse
  /\ idx' = idx + 1
  /\ pc' = AfterUrl
  /\ UNCHANGED exitCode

\* catch (error) { console.error(...); return null; }: where main is after
\* an exception inside the try block of downloadFile
CatchRethrows(next) == "exited"

Catch(next) == next

AfterException ==
  /\ skipped' = skipped \cup {idx}
  /\ content' = Absent
  /\ response' = NoResponse
  /\ idx' = idx + 1
  /\ pc' = Catch(AfterUrl)
  /\ exitCode' = IF Catch(AfterUrl) = "exited" THEN 1 ELSE exitCode

\* if (!isAllowedGithubDomain(url)) return null
CheckDomain ==
  /\ pc = "download"
  /\ attempted' = attempted \cup {idx}
  /\ trace' = <<"allow">>
  /\ IF ~isAllowedGithubDomain(fileUrls[idx])
     THEN ContinueLoop
     ELSE pc' = "fetch" /\ UNCHANGED << skipped, content, response, idx, exitCode >>
  /\ UNCHANGED << env, issueNumber, commentBody, pre, fs, dirs, fileUrls, filePath,
                  downloadedFiles, outputs, requests, written, guardResult, manifest,
                  fatalError, sanVars >>

\* the hosts a fetch with redirect: 'follow' sends requests to
RequestedHosts(u, r) ==
  {UrlHostname(u)} \cup (IF r.redirect = <<>> THEN {} ELSE {r.redirect})

\* await fetch(url, {..., redirect: 'follow'}) resolves with a response
FetchResponds ==
  /\ pc = "fetch"
  /\ \E r \in Responses :
       /\ response' = r
       /\ requests' = requests \cup RequestedHosts(fileUrls[idx], r)
  /\ trace' = Append(trace, "request")
  /\ pc' = "status"
  /\ UNCHANGED << env, issueNumber, commentBody, pre, fs, dirs, fileUrls, idx,
                  content, filePath, downloadedFiles, outputs, exitCode, attempted,
                  skipped, written, guardResult, manifest, fatalError, sanVars >>

\* await fetch(...) rejects (timeout, DNS failure, connection reset)
FetchThrows ==
  /\ pc = "fetch"
  /\ requests' = requests \cup {UrlHostname(fileUrls[idx])}
  /\ trace' = Append(trace, "request")
  /\ AfterException
  /\ UNCHANGED << env, issueNumber, commentBody, pre, fs, dirs, fileUrls, filePath,
                  downloadedFiles, outputs, attempted, written, guardResult, manifest,
                  fatalError, sanVars >>

\* if (!response.ok) throw new Error(...)
CheckStatus ==
  /\ pc = "status"
  /\ trace' = Append(trace, "status")
  /\ IF ~response.ok
     THEN AfterException
     ELSE pc' = "length" /\ UNCHANGED << skipped, content, response, idx, exitCode >>
  /\ UNCHANGED << env, issueNumber, commentBody, pre, fs, dirs, fileUrls, filePath,
                  downloadedFiles, outputs, requests, attempted, written, guardResult,
                  manifest, fatalError, sanVars >>

\* if (contentLength) { size = parseInt(contentLength, 10); size > MAX_FILE_SIZE }:
\* a missing header skips the test, NaN compares false
DeclaredTooLargeNever(h) == FALSE

DeclaredTooLarge(h) == h.kind = "num" /\ h.n > MAX_FILE_SIZE

CheckContentLength ==
  /\ pc = "length"
  /\ trace' = Append(trace, "length")
  /\ IF DeclaredTooLarge(response.contentLength)
     THEN ContinueLoop
     ELSE pc' = "read" /\ UNCHANGED << skipped, content, response, idx, exitCode >>
  /\ UNCHANGED << env, issueNumber, commentBody, pre, fs, dirs, fileUrls, filePath,
                  downloadedFiles, outputs, requests, attempted, written, guardResult,
                  manifest, fatalError, sanVars >>

\* await response.arrayBuffer() resolves with the whole body
ReadBody ==
  /\ pc = "read"
  /\ trace' = Append(trace, "read")
  /\ content' = Bytes(idx, response.bodySize)
  /\ pc' = "actual"
  /\ UNCHANGED << env, issueNumber, commentBody, pre, fs, dirs, fileUrls, idx,
                  response, filePath, downloadedFiles, outputs, exitCode, requests,
                  attempted, skipped, written, guardResult, manifest, fatalError, sanVars >>

\* await response.arrayBuffer() rejects (the connection breaks mid-body)
ReadBodyThrows ==
  /\ pc = "read"
  /\ trace' = Append(trace, "read")
  /\ AfterException
  /\ UNCHANGED << env, issueNumber, commentBody, pre, fs, dirs, fileUrls, filePath,
                  downloadedFiles, outputs, requests, attempted, written, guardResult,
                  manifest, fatalError, sanVars >>

\* if (arrayBuffer.byteLength > MAX_FILE_SIZE) return null
ActualTooLargeNever(n) == FALSE

ActualTooLarge(n) == n > MAX_FILE_SIZE

CheckActualSize ==
  /\ pc = "actual"
  /\ trace' = Append(trace, "actual")
  /\ IF ActualTooLarge(content.size)
     THEN ContinueLoop
     ELSE pc' = "name" /\ UNCHANGED << skipped, content, response, idx, exitCode >>
  /\ UNCHANGED << env, issueNumber, commentBody, pre, fs, dirs, fileUrls, filePath,
                  downloadedFiles, outputs, requests, attempted, written, guardResult,
                  manifest, fatalError, sanVars >>

\* ------------------------------------------------------------------------
\* main: naming, writing, reporting
\* ------------------------------------------------------------------------
\* filename = getFilenameFromUrl(url);
\* filePath = await ensureUniqueFilename(targetDir, filename)
ResolvePath ==
  /\ pc = "name"
  /\ filePath' = ensureUniqueFilename(targetDir, getFilenameFromUrl(fileUrls[idx]),
                                      ExistingPaths)
  /\ pc' = "write"
  /\ UNCHANGED << env, issueNumber, commentBody, pre, fs, dirs, fileUrls, idx,
                  response, content, downloadedFiles, outputs, exitCode, requests,
                  trace, attempted, skipped, written, guardResult, manifest, fatalError, sanVars >>

\* writeFile(path, data): creates or replaces the file at path
WriteFileTo(disk, path, data) == [q \in DOMAIN disk \cup {path} |-> IF q = path THEN data ELSE disk[q]]

\* await fs.writeFile(filePath, content); downloadedFiles.push(filePath)
SaveFile ==
  /\ pc = "write"
  /\ fs' = WriteFileTo(fs, filePath, content)
  /\ downloadedFiles' = Append(downloadedFiles, filePath)
  /\ written' = Append(written, [path |-> filePath, content |-> content])
  /\ content' = Absent
  /\ response' = NoResponse
  /\ filePath' = <<>>
  /\ idx' = idx + 1
  /\ pc' = AfterUrl
  /\ UNCHANGED << env, issueNumber, commentBody, pre, dirs, fileUrls, outputs,
                  exitCode, requests, trace, attempted, skipped, guardResult,
                  manifest, fatalError, sanVars >>

\* await fs.writeFile(filePath, content) rejects
SaveFileThrows ==
  /\ pc = "write"
  /\ Throw("writeFile")
  /\ UNCHANGED << env, issueNumber, commentBody, pre, fs, dirs, fileUrls, idx,
                  response, content, filePath, downloadedFiles, outputs, requests,
                  trace, attempted, skipped, written, guardResult, manifest, sanVars >>

\* if (downloadedFiles.length > 0)
AnyDownloadedAlways(files) == TRUE

AnyDownloaded(files) == Len(files) > 0

\* setOutput('files_processed', 'true') or, with nothing downloaded,
\* setOutput('files_processed', 'false') and the end of main
ReportProcessed ==
  /\ pc = "report"
  /\ IF ~env.output
     THEN Throw("setOutput") /\ UNCHANGED outputs
     ELSE IF AnyDownloaded(downloadedFiles)
          THEN /\ outputs' = Append(outputs, OutputLine("files_processed", "true"))
               /\ pc' = "file_list"
               /\ UNCHANGED << exitCode, fatalError >>
          ELSE /\ outputs' = Append(outputs, OutputLine("files_processed", "false"))
               /\ Exit(0)
               /\ UNCHANGED fatalError
  /\ UNCHANGED << env, issueNumber, commentBody, pre, fs, dirs, fileUrls, idx,
                  response, content, filePath, downloadedFiles, requests, trace,
                  attempted, skipped, written, guardResult, manifest, sanVars >>

\* setOutput('file_list', fileList)
ReportFileList ==
  /\ pc = "file_list"
  /\ outputs' = Append(outputs, OutputLine("file_list", "paths"))
  /\ pc' = "metadata"
  /\ UNCHANGED << env, issueNumber, commentBody, pre, fs, dirs, fileUrls, idx,
                  response, content, filePath, downloadedFiles, exitCode, requests,
                  trace, attempted, skipped, written, guardResult, manifest, fatalError, sanVars >>

\* await fs.writeFile(metadataPath, JSON.stringify(metadata, null, 2))
WriteMetadata ==
  /\ pc = "metadata"
  /\ fs' = WriteFileTo(fs, metadataPath, Metadata(downloadedFiles))
  /\ manifest' = Metadata(downloadedFiles)
  /\ Exit(0)
  /\ UNCHANGED << env, issueNumber, commentBody, pre, dirs, fileUrls, idx, response,
                  content, filePath, downloadedFiles, outputs, requests, trace,
                  attempted, skipped, written, guardResult, fatalError, sanVars >>

\* await fs.writeFile(metadataPath, ...) rejects
WriteMetadataThrows ==
  /\ pc = "metadata"
  /\ Throw("writeMetadata")
  /\ UNCHANGED << env, issueNumber, commentBody, pre, fs, dirs, fileUrls, idx,
                  response, content, filePath, downloadedFiles, outputs, requests,
                  trace, attempted, skipped, written, guardResult, manifest, sanVars >>

Next ==
  \/ CheckEnv
  \/ ValidateIssueNumber
  \/ GuardTargetDir
  \/ MakeTargetDir
  \/ MakeTargetDirThrows
  \/ ExtractUrls
  \/ CheckDomain
  \/ FetchResponds
  \/ FetchThrows
  \/ CheckStatus
  \/ CheckContentLength
  \/ ReadBody
  \/ ReadBodyThrows
  \/ CheckActualSize
  \/ ResolvePath
  \/ SaveFile
  \/ SaveFileThrows
  \/ ReportProcessed
  \/ ReportFileList
  \/ WriteMetadata
  \/ WriteMetadataThrows

Spec == Init /\ [][Next]_vars

\* ------------------------------------------------------------------------
\* sanitizeFilename called on its own
\* ------------------------------------------------------------------------
\* the characters the enumerated heads are made of
SanAlphabet == {"a", "C", ".", " ", "/", "<", "\n"}

\* the lengths of the padding: around MAX_FILENAME_LENGTH
PadLengths == (MAX_FILENAME_LENGTH - 2)..(MAX_FILENAME_LENGTH + MaxOver)

\* what follows the head: nothing, a long stem, a long stem with a short
\* extension, a long extension
SanTails ==
  {<<>>}
  \cup {Pad("x", n) : n \in PadLengths}
  \cup {Pad("x", n) \o <<".", "p">> : n \in PadLengths}
  \cup {<<".">> \o Pad("x", n) : n \in PadLengths}

\* reserved device names, with and without extension, in either case
SanNamed ==
  { <<"C", "O", "N", ".", "t", "x", "t">>, <<"c", "o", "n">>, <<"L", "p", "t", "9", ".", "a">>,
    <<" ", "N", "U", "L", ".">>, <<"C", "O", "N", "x", "y", "z">>, <<"a", ".", "C", "O", "N">> }

SanInputs ==
  {h \o t : h \in SeqsUpTo(SanAlphabet, MaxHead) \cup SanNamed, t \in SanTails}

MainIdle ==
  /\ pc = "idle"
  /\ env = [token |-> TRUE, commentId |-> TRUE, repository |-> TRUE, output |-> TRUE]
  /\ issueNumber = <<"4", "2">>
  /\ commentBody = <<>>
  /\ pre = {}
  /\ fs = InitialFs({}, <<"4", "2">>)
  /\ dirs = InitialDirs({}, <<"4", "2">>)
  /\ fileUrls = <<>>
  /\ idx = 0
  /\ response = NoResponse
  /\ content = Absent
  /\ filePath = <<>>
  /\ downloadedFiles = <<>>
  /\ outputs = <<>>
  /\ exitCode = -1
  /\ requests = {}
  /\ trace = <<>>
  /\ attempted = {}
  /\ skipped = {}
  /\ written = <<>>
  /\ guardResult = "none"
  /\ manifest = Absent
  /\ fatalError = "none"

SanInit == MainIdle /\ sanPc = "in" /\ sanIn \in SanInputs /\ sanOut = <<>>

\* sanOut = sanitizeFilename(sanIn)
Sanitize ==
  /\ sanPc = "in"
  /\ sanOut' = sanitizeFilename(sanIn)
  /\ sanPc' = "out"
  /\ UNCHANGED << sanIn, mainVars >>

SanNext == Sanitize

SpecSan == SanInit /\ [][SanNext]_vars

\* ------------------------------------------------------------------------
\* Properties
\* ------------------------------------------------------------------------
\* the hosts the allow-list names: github.com, githubusercontent.com and
\* the subdomains of githubusercontent.com
OnAllowList(h) ==
  \/ h = S_github_com
  \/ h = S_githubusercontent_com
  \/ EndsWith(h, <<".">> \o S_githubusercontent_com)

\* C1: every host that received a request is on the allow-list (no request
\* goes to a host the Domain Validator rejects).
C1_OnlyAllowListedHostsRequested == \A h \in requests : OnAllowList(h)

\* C2: every file the loop wrote, and every result downloadFile returned,
\* is a complete body of at most MAX_FILE_SIZE bytes; the loop writes only
\* such results.
C2_WrittenFilesWithinMaxSize ==
  /\ \A i \in 1..Len(written) :
       /\ written[i].content.kind = "bytes"
       /\ written[i].content.size <= MAX_FILE_SIZE
  /\ pc \in {"name", "write"} =>
       /\ content.kind = "bytes"
       /\ content.size = response.bodySize
       /\ content.size <= MAX_FILE_SIZE
  /\ \A q \in DOMAIN fs : fs[q].kind = "bytes" => fs[q].size <= MAX_FILE_SIZE

\* C2 witness: a body of exactly MAX_FILE_SIZE bytes was written.
C2_Witness == Len(written) >= 1 /\ written[1].content.size = MAX_FILE_SIZE

\* a path directly inside the target directory, hence strictly inside baseDir
DirectlyInTargetDir(q) ==
  /\ Len(q) = Len(targetDir) + 1
  /\ IsPrefix(targetDir, q)
  /\ IsPrefix(baseDir, q) /\ Len(q) > Len(baseDir)
  /\ q[Len(q)] \notin {<<>>, <<".">>, <<".", ".">>}
  /\ ~Includes(q[Len(q)], "/")

\* C3: every path the loop resolves and every path it writes lies directly
\* inside uploaded_files/issue_<n>, strictly inside uploaded_files.
C3_WritesStayInsideTargetDir ==
  /\ \A i \in 1..Len(written) : DirectlyInTargetDir(written[i].path)
  /\ pc = "write" => DirectlyInTargetDir(filePath)

\* C3 witness: the file of a URL whose last segment is %2F..%2F..%2Fx
\* (a percent-encoded ../../x) was written.
C3_Witness ==
  \E i \in 1..Len(written) :
    written[i].path = Append(targetDir, <<"%", "2", "F", ".", ".", "%", "2", "F", ".", ".",
                                          "%", "2", "F", "x">>)

\* the k-th candidate of the Unique-Path Resolver: the name itself, then
\* stem_1.ext, stem_2.ext, ...
Candidate(f, k) ==
  IF k = 0 THEN Append(targetDir, f) ELSE Append(targetDir, NumberedFilename(f, k))

\* C4: the path ensureUniqueFilename returned does not exist, and is the
\* first free one among name, stem_1.ext, stem_2.ext, ...; the paths written
\* in one run are pairwise different.
C4_UniquePathIsFirstFree ==
  /\ pc = "write" =>
       /\ filePath \notin ExistingPaths
       /\ \E k \in 0..Cardinality(ExistingPaths) :
            /\ filePath = Candidate(getFilenameFromUrl(fileUrls[idx]), k)
            /\ \A j \in 0..(k - 1) :
                 Candidate(getFilenameFromUrl(fileUrls[idx]), j) \in ExistingPaths
  /\ \A i, j \in 1..Len(written) : i # j => written[i].path # written[j].path

\* C4 witness: with photo.png on disk, two URLs that both derive photo.png
\* were written to photo_1.png and photo_2.png.
C4_Witness ==
  /\ pre = {S_photo_png}
  /\ Len(written) = 2
  /\ written[1].path = Append(targetDir, S_photo_1_png)
  /\ written[2].path = Append(targetDir, S_photo_2_png)

\* C5: metadata.json is written only after at least one file was written,
\* and its files field lists the written paths, each once, in the order
\* written, and no path of a skipped URL.
C5_ManifestListsWrittenPaths ==
  manifest # Absent =>
    /\ Len(written) >= 1
    /\ manifest.files = [i \in 1..Len(written) |-> written[i].path]
    /\ \A i, j \in 1..Len(manifest.files) : i # j => manifest.files[i] # manifest.files[j]
    /\ \A i \in 1..Len(written) : written[i].content.from \notin skipped
    /\ fs[metadataPath] = manifest

\* C5 witness: a manifest of one path was written in a run that skipped a URL.
C5_Witness == manifest # Absent /\ Len(manifest.files) = 1 /\ skipped # {}

\* files_processed was reported once, as true iff a file was written
FilesProcessedReported ==
  LET lines == {i \in 1..Len(outputs) : outputs[i].name = "files_processed"}
  IN  /\ Cardinality(lines) = 1
      /\ \A i \in lines : outputs[i].value = (IF Len(written) > 0 THEN "true" ELSE "false")

C7_MalformedIssueNumberAbortsEarly ==
  ~AllDigits(issueNumber) =>
    /\ pc \in {"start", "validate", "exited"}
    /\ pc = "exited" => exitCode = 1
    /\ guardResult = "none"
    /\ fs = InitialFs(pre, issueNumber)
    /\ dirs = InitialDirs(pre, issueNumber)
    /\ outputs = <<>>
    /\ written = <<>> /\ manifest = Absent
    /\ attempted = {} /\ requests = {}

\* C7 witness: the run with ISSUE_NUMBER "../x" and everything else set has
\* exited with 1.
C7_Witness ==
  /\ issueNumber = <<".", ".", "/", "x">>
  /\ env.token /\ env.commentId /\ env.repository
  /\ pc = "exited" /\ exitCode = 1

\* the order of the checks of downloadFile
DownloadOrder == <<"allow", "request", "status", "length", "read", "actual">>

\* the response declares a content-length above the maximum
DeclaresTooMuch(r) == r.contentLength.kind = "num" /\ r.contentLength.n > MAX_FILE_SIZE

\* C9: the steps of downloadFile happen in the order allow-list, request,
\* status, declared length, body read, actual length; the body is read only
\* of a response with a success status that declares no length above the
\* maximum; a result is returned only after all six steps, and only a body
\* of at most the maximum.
C9_DownloadChecksInOrder ==
  /\ IsPrefix(trace, DownloadOrder)
  /\ pc = "fetch" => trace = SubSeq(DownloadOrder, 1, 1)
  /\ pc = "actual" => trace = SubSeq(DownloadOrder, 1, 5)
  /\ (Len(trace) >= 5 /\ response # NoResponse) =>
       response.ok /\ ~DeclaresTooMuch(response)
  /\ content # Absent => response.ok /\ ~DeclaresTooMuch(response)
  /\ pc \in {"name", "write"} =>
       trace = DownloadOrder /\ response.bodySize <= MAX_FILE_SIZE

\* C9 witness: a download was refused at the declared content-length, after
\* the status check and before any read of the body.
C9_Witness ==
  /\ trace = SubSeq(DownloadOrder, 1, 4)
  /\ pc \in {"download", "report"}
  /\ (idx - 1) \in skipped

\* C10: at the end of a run that wrote a manifest, every path the manifest
\* lists holds the bytes downloaded for it: no later write of the run, the
\* write of metadata.json included, replaced an ingested file.
C10_IngestedFilesKeepTheirBytes ==
  (pc = "exited" /\ exitCode = 0 /\ manifest # Absent) =>
    \A i \in 1..Len(manifest.files) : fs[manifest.files[i]] = written[i].content

\* the part of the name before its first dot is a reserved device name
HasReservedStem(s) == ToUpperCase(SplitFirst(s, ".")) \in reservedNames

\* C8: the output of sanitizeFilename is at most 200 characters long, holds
\* none of the disallowed characters, is not empty, and starts with an
\* underscore when the stem of the (replaced and trimmed) input is a reserved
\* device name.
C8_SanitizerContract ==
  sanPc = "out" =>
    /\ Len(sanOut) <= MAX_FILENAME_LENGTH
    /\ \A i \in 1..Len(sanOut) : sanOut[i] \notin InvalidChars
    /\ sanOut # <<>>
    /\ HasReservedStem(TrimDotsAndSpaces(ReplaceInvalid(sanIn))) => sanOut[1] = "_"

====
